---- MODULE Spec2Model ----
(***************************************************************************)
(* Model of the categorical encoders of dstoolbox                          *)
(* (src/src/dstoolbox/sklearn/transformers/_encoders.py).                  *)
(*                                                                         *)
(* A table (pandas DataFrame) is a record                                  *)
(*   [index   : sequence of row labels,                                    *)
(*    columns : sequence of column names,                                  *)
(*    data    : sequence of columns, in the order of columns]              *)
(* and a column (pandas Series) is a record                                *)
(*   [dtype      : "category" or "object",                                 *)
(*    categories : the declared domain (a sequence of distinct labels,     *)
(*                 empty for an object column),                            *)
(*    values     : one cell per row, a label or NA].                       *)
(* The target y of fit is a numeric vector of the table's length: it is    *)
(* validated by check_X_y and never read again, so it is not modelled.     *)
(***************************************************************************)
EXTENDS Integers, Sequences, FiniteSets, TLC

VARIABLES
    handle_unknown,        \* Categorizer.handle_unknown
    categories_,           \* Categorizer.categories_ (a defaultdict(list))
    threshold_absolute,    \* CategoryGrouper.threshold_absolute
    threshold_relative,    \* CategoryGrouper.threshold_relative, in hundredths
    other_value,           \* CategoryGrouper.other_value
    categories_to_group_,  \* CategoryGrouper.categories_to_group_ (a defaultdict(list))
    missing_value,         \* CategoryMissingAdder.missing_value
    estimator,             \* the class of the object
    op,                    \* the last call: "init", "fit", "transform", "fit_transform",
                           \* "transform_again" or "_check_categorical"
    X,                     \* the table passed to the last call
    X_after,               \* the caller's table X when the last call has ended
    X_fit,                 \* history: the table of the last CategoryGrouper.fit that returned
    peer,                  \* the mappings of a second object of the same class
    pc,                    \* execute_template: the position of the running call
    dump_file,             \* the content of .query_dump.sql, NoFile when there is none
    queries,               \* the queries the warehouse has received
    result                 \* what the last call returned or raised

vars == <<handle_unknown, categories_, threshold_absolute, threshold_relative,
          other_value, categories_to_group_, missing_value, estimator, op, X,
          X_after, X_fit, peer, pc, dump_file, queries, result>>

categorizer_vars == <<handle_unknown, categories_>>
grouper_vars == <<threshold_absolute, threshold_relative, other_value, categories_to_group_>>
adder_vars == <<missing_value>>
world_vars == <<pc, dump_file, queries>>

----------------------------------------------------------------------------
(* Bounds of the model.                                                    *)

MaxRows == 2

\* the labels of the categorical columns, in their sort order
LabelSeq == <<"a", "z">>

\* the labels of the cells of object columns
ObjectLabels == {"b", "z"}

\* labels of the two-column tables
WideLabels == <<"a", "z">>

ColNames == <<"var1", "var2">>

----------------------------------------------------------------------------
(* pandas values.                                                          *)

\* np.nan, the missing marker of a cell
NA == "NaN"

Range(s) == {s[i] : i \in DOMAIN s}

IsUnique(s) == \A i, j \in DOMAIN s : s[i] = s[j] => i = j

\* the empty table, standing for "no table" in X, X_fit and result
NoTable == [index |-> <<>>, columns |-> <<>>, data |-> <<>>]

\* pd.RangeIndex(n): the row labels 0 .. n-1
RangeIndex(n) == [i \in 1..n |-> ToString(i - 1)]

\* the subsequences of s: the domains a sorted label list allows
SubSeqs(s) ==
    LET Pick(S) == LET idx == CHOOSE f \in [1..Cardinality(S) -> S] :
                                  \A i, j \in 1..Cardinality(S) : i < j => f[i] < f[j]
                   IN  [i \in 1..Cardinality(S) |-> s[idx[i]]]
    IN  {Pick(S) : S \in SUBSET (1..Len(s))}

\* pd.Categorical(values, categories=d) for every d and values, n rows
CategoricalColumns(labels, n) ==
    UNION {{[dtype |-> "category", categories |-> d, values |-> v] :
                v \in [1..n -> Range(d) \cup {NA}]} :
           d \in SubSeqs(labels)}

\* pd.Series(values, dtype="object"), n rows
ObjectColumns(n) ==
    {[dtype |-> "object", categories |-> <<>>, values |-> v] :
        v \in [1..n -> ObjectLabels \cup {NA}]}

\* pd.DataFrame({name: column}) over the default RangeIndex
Frame(names, cols) ==
    [index   |-> RangeIndex(Len(cols[1].values)),
     columns |-> names,
     data    |-> [i \in 1..Len(names) |-> cols[i]]]

\* the one-column tables of n rows
CategoricalTables(n) ==
    {Frame(<<ColNames[1]>>, <<c>>) : c \in CategoricalColumns(LabelSeq, n)}

ObjectTables(n) == {Frame(<<ColNames[1]>>, <<c>>) : c \in ObjectColumns(n)}

NarrowTables(n) == CategoricalTables(n) \cup ObjectTables(n)

\* the two-column tables: one row, each column categorical with one label
WideTables ==
    LET cols == {c \in CategoricalColumns(WideLabels, 1) : Len(c.categories) = 1}
    IN  {Frame(ColNames, <<c1, c2>>) : c1 \in cols, c2 \in cols}

\* the tables the calls are given
Tables == WideTables \cup UNION {NarrowTables(n) : n \in 1..MaxRows}

NRows(T) == Len(T.index)
NCols(T) == Len(T.columns)

\* position of column name c in T, 0 when T has no such column
ColPos(T, c) ==
    IF \E i \in 1..NCols(T) : T.columns[i] = c
    THEN CHOOSE i \in 1..NCols(T) : T.columns[i] = c
    ELSE 0

\* X.copy() with column i replaced: X_copy[col] = series
SetColumn(T, i, series) == [T EXCEPT !.data[i] = series]

\* a variant where X_copy is the caller's table itself
copy_shared(T, X_copy) == X_copy

\* X_copy = X.copy(): the caller's table T when the call that worked on the
\* copy, and left it as X_copy, has ended
copy(T, X_copy) == T

----------------------------------------------------------------------------
(* What a call returns or raises.                                          *)

\* a call that returned: the table of transform (fit returns self: no table)
Returned(T) ==
    [kind |-> "ok", table |-> T, reason |-> "", cols |-> <<>>, count |-> 0]

\* a call that raised: the exception class, and the column names and the
\* number its message holds
Raised(kind, reason, cols, count) ==
    [kind |-> kind, table |-> NoTable, reason |-> reason, cols |-> cols, count |-> count]

----------------------------------------------------------------------------
(* _check_categorical                                                      *)

\* a variant that takes an object column for a categorical one
is_categorical_or_object(series) == series.dtype \in {"category", "object"}

\* pd.api.types.is_categorical_dtype(x)
is_categorical_dtype(series) == series.dtype = "category"

\* a variant that lists every column once one is not categorical
non_categoricals_all(T) ==
    IF \A i \in 1..NCols(T) : is_categorical_dtype(T.data[i]) THEN <<>> ELSE T.columns

\* the names the error message lists, in column order
non_categoricals(T) ==
    LET bad == {i \in 1..NCols(T) : ~is_categorical_dtype(T.data[i])}
    IN  SelectSeq(T.columns, LAMBDA c : ColPos(T, c) \in bad)

\* TRUE when the check passes, FALSE when it raises ValueError
check_categorical(T) == non_categoricals(T) = <<>>

----------------------------------------------------------------------------
(* pandas operations the encoders call.                                    *)

\* a variant that forgets dropna(): the missing marker counts as a value
unique_vals_keep_na(series) == Range(series.values)

\* Series.dropna().unique(), as a set
unique_vals(series) == {v \in Range(series.values) : v # NA}

\* the orders list(a_set) may produce
ListsOf(S) == {f \in [1..Cardinality(S) -> S] : \A i, j \in 1..Cardinality(S) : f[i] = f[j] => i = j}

\* a variant that casts with astype("category"): the domain is inferred from
\* the cells instead of taken from the argument
astype_inferred(series, categories) ==
    [dtype      |-> "category",
     categories |-> SelectSeq(categories, LAMBDA l : l \in Range(series.values)),
     values     |-> [i \in DOMAIN series.values |->
                        IF series.values[i] \in Range(categories)
                        THEN series.values[i] ELSE NA]]

\* Series.astype(pd.CategoricalDtype(categories)): a cell whose value is not
\* one of the categories becomes missing
astype_categorical(series, categories) ==
    [dtype      |-> "category",
     categories |-> categories,
     values     |-> [i \in DOMAIN series.values |->
                        IF series.values[i] \in Range(categories)
                        THEN series.values[i] ELSE NA]]

\* what an addition gives: the labels, or the exception
Sum(labels) == [kind |-> "ok", labels |-> labels]
NoSum(kind, reason) == [kind |-> kind, labels |-> <<>>, reason |-> reason]

\* pd.Index + list on labels: numpy's elementwise + of strings, a length-1
\* operand being broadcast; ValueError when the lengths do not broadcast. The
\* categories of a column without labels are an empty Index of dtype object
\* (pd.Categorical([], categories=[])) or float64 (pd.Categorical([np.nan])),
\* and adding strings to the latter raises TypeError: a column of the model
\* does not tell the two apart, so both outcomes are possible
index_add(idx, lst) ==
    LET n == Len(idx)
        m == Len(lst)
        object_sum ==
            IF n = m \/ n = 1 \/ m = 1
            THEN Sum([i \in 1..(IF n = 1 THEN m ELSE n) |->
                         idx[IF n = 1 THEN 1 ELSE i] \o lst[IF m = 1 THEN 1 ELSE i]])
            ELSE NoSum("ValueError", "operands could not be broadcast together")
    IN  IF n = 0
        THEN {object_sum, NoSum("TypeError", "unsupported operand types")}
        ELSE {object_sum}

\* X_copy.loc[X_copy[col].isin(which), col] = value. A categorical column
\* takes only NA or one of its categories: anything else raises TypeError
loc_mask_ok(series, value) ==
    series.dtype = "category" => (value = NA \/ value \in Range(series.categories))

\* a variant with the mask inverted
loc_mask_set_inverted(series, which, value) ==
    [series EXCEPT !.values = [i \in DOMAIN series.values |->
                                  IF series.values[i] \notin which THEN value
                                  ELSE series.values[i]]]

loc_mask_set(series, which, value) ==
    [series EXCEPT !.values = [i \in DOMAIN series.values |->
                                  IF series.values[i] \in which THEN value
                                  ELSE series.values[i]]]

----------------------------------------------------------------------------
(* Categorizer                                                             *)

\* an entry of the defaultdict categories_: the pd.Index that fit stored, the
\* empty list that reading a missing key inserts, or no entry
IndexEntry(labels) == [kind |-> "Index", labels |-> labels]
ListEntry == [kind |-> "list", labels |-> <<>>]
NoEntry == [kind |-> "absent", labels |-> <<>>]

\* defaultdict(list)
EmptyDict == [c \in Range(ColNames) |-> NoEntry]

\* a variant where the dict is an attribute of the class, one for all objects
defaultdict_shared(object) == "class"

\* defaultdict(list) in __init__: the dict it makes belongs to the object
defaultdict(object) == object

\* the dict of the other object when this object's dict, now own, was written:
\* own if the two are one dict, else what it was
PeerAfter(own, other) ==
    IF defaultdict("A") = defaultdict("B") THEN own ELSE other

\* the second object after construction
UnfittedPeer == [categories_ |-> EmptyDict, categories_to_group_ |-> EmptyDict]

\* no file on disk
NoFile == "NoFile"

\* no call of execute_template yet, no dump file, nothing sent
WorldInit == pc = "idle" /\ dump_file = NoFile /\ queries = <<>>

Keys(d) == {c \in DOMAIN d : d[c].kind # "absent"}

\* defaultdict.__getitem__: reading a missing key inserts []
Touch(d, c) == IF d[c].kind = "absent" THEN [d EXCEPT ![c] = ListEntry] ELSE d

\* self.categories_[col] + lst: list concatenation on the inserted [],
\* elementwise addition on the fitted pd.Index
categories_plus(entry, lst) ==
    IF entry.kind = "list" THEN {Sum(entry.labels \o lst)} ELSE index_add(entry.labels, lst)

\* sklearn's check_is_fitted(self): some attribute with a trailing underscore
\* exists. __init__ creates categories_, so the check passes on every instance
check_is_fitted(attributes) == attributes # {}

\* sklearn's check_array(X, dtype=None, force_all_finite=False)
check_array(T) == NRows(T) >= 1 /\ NCols(T) >= 1

ColOk(series) == [kind |-> "ok", series |-> series, reason |-> "", count |-> 0]
ColRaised(kind, reason, count) ==
    [kind |-> kind, series |-> <<>>, reason |-> reason, count |-> count]

\* the body of the loop of Categorizer.transform for one column: the outcomes
\* for the orders list(set) may give unknown_categories
CategorizerColumn(policy, series, entry) ==
    LET unknown == unique_vals(series) \ Range(entry.labels)
        Cast(s, categories) ==
            IF IsUnique(categories)
            THEN ColOk(astype_categorical(s, categories))
            ELSE ColRaised("ValueError", "categories must be unique", 0)
    IN  IF unknown = {}
        THEN {Cast(series, entry.labels)}
        ELSE CASE policy = "error" ->
                    {ColRaised("ValueError", "unknown categories", Cardinality(unknown))}
               [] policy = "ignore" ->
                    {IF sum.kind = "ok"
                     THEN Cast(series, sum.labels)
                     ELSE ColRaised(sum.kind, sum.reason, 0) :
                        sum \in UNION {categories_plus(entry, unknown_categories) :
                                          unknown_categories \in ListsOf(unknown)}}
               [] policy = "missing" ->
                    {Cast(loc_mask_set(series, unknown, NA), entry.labels)}
               [] policy = "mark" ->
                    IF ~loc_mask_ok(series, "(unknown)")
                    THEN {ColRaised("TypeError",
                                    "Cannot setitem on a Categorical with a new category", 0)}
                    ELSE {IF sum.kind = "ok"
                          THEN Cast(loc_mask_set(series, unknown, "(unknown)"), sum.labels)
                          ELSE ColRaised(sum.kind, sum.reason, 0) :
                             sum \in categories_plus(entry, <<"(unknown)">>)}
               [] OTHER -> {ColOk(series)}

\* the loop of Categorizer.transform from column i on: the set of
\* [result, categories_] the call may end with
RECURSIVE CategorizerLoop(_, _, _, _)
CategorizerLoop(policy, X_copy, cats, i) ==
    IF i > NCols(X_copy)
    THEN {[result |-> Returned(X_copy), categories_ |-> cats]}
    ELSE LET col == X_copy.columns[i]
             touched == Touch(cats, col)
         IN  UNION {IF o.kind = "ok"
                    THEN CategorizerLoop(policy, SetColumn(X_copy, i, o.series), touched, i + 1)
                    ELSE {[result |-> Raised(o.kind, o.reason, <<col>>, o.count),
                           categories_ |-> touched]} :
                       o \in CategorizerColumn(policy, X_copy.data[i], touched[col])}

\* Categorizer.transform(X)
CategorizerTransformOutcomes(policy, cats, T) ==
    IF ~check_is_fitted({"categories_"})
    THEN {[result |-> Raised("NotFittedError", "not fitted", <<>>, 0), categories_ |-> cats]}
    ELSE IF ~check_array(T)
    THEN {[result |-> Raised("ValueError", "check_array", <<>>, 0), categories_ |-> cats]}
    ELSE CategorizerLoop(policy, T, cats, 1)

\* a variant that stores the labels observed in the column instead of the
\* labels the column declares
CategorizerFittedObserved(cats, T) ==
    [c \in DOMAIN cats |->
        IF ColPos(T, c) # 0
        THEN IndexEntry(SelectSeq(T.data[ColPos(T, c)].categories,
                                  LAMBDA l : l \in Range(T.data[ColPos(T, c)].values)))
        ELSE cats[c]]

\* the mapping after the loop of Categorizer.fit
CategorizerFitted(cats, T) ==
    [c \in DOMAIN cats |->
        IF ColPos(T, c) # 0
        THEN IndexEntry(T.data[ColPos(T, c)].categories)
        ELSE cats[c]]

\* Categorizer.fit(X, y)
CategorizerFit(T) ==
    /\ op' = "fit"
    /\ X' = T
    /\ X_after' = T
    /\ IF check_array(T) /\ check_categorical(T)
       THEN /\ categories_' = CategorizerFitted(categories_, T)
            /\ result' = Returned(NoTable)
       ELSE /\ result' = Raised("ValueError", "not categorical",
                                non_categoricals(T), Len(non_categoricals(T)))
            /\ UNCHANGED categories_
    /\ peer' = [peer EXCEPT !.categories_ = PeerAfter(categories_', @)]
    /\ UNCHANGED <<handle_unknown, X_fit, grouper_vars, adder_vars, estimator, world_vars>>

\* Categorizer.transform(X)
CategorizerTransform(T) ==
    /\ op' = "transform"
    /\ X' = T
    /\ \E o \in CategorizerTransformOutcomes(handle_unknown, categories_, T) :
          /\ result' = o.result
          /\ categories_' = o.categories_
          /\ X_after' = copy(T, IF o.result.kind = "ok" THEN o.result.table ELSE T)
    /\ peer' = [peer EXCEPT !.categories_ = PeerAfter(categories_', @)]
    /\ UNCHANGED <<handle_unknown, X_fit, grouper_vars, adder_vars, estimator, world_vars>>

\* Categorizer.fit_transform(X, y), inherited from TransformerMixin:
\* fit(X, y).transform(X)
CategorizerFitTransform(T) ==
    /\ op' = "fit_transform"
    /\ X' = T
    /\ IF check_array(T) /\ check_categorical(T)
       THEN \E o \in CategorizerTransformOutcomes(handle_unknown,
                                                  CategorizerFitted(categories_, T), T) :
               /\ result' = o.result
               /\ categories_' = o.categories_
               /\ X_after' = copy(T, IF o.result.kind = "ok" THEN o.result.table ELSE T)
       ELSE /\ result' = Raised("ValueError", "not categorical",
                                non_categoricals(T), Len(non_categoricals(T)))
            /\ X_after' = T
            /\ UNCHANGED categories_
    /\ peer' = [peer EXCEPT !.categories_ = PeerAfter(categories_', @)]
    /\ UNCHANGED <<handle_unknown, X_fit, grouper_vars, adder_vars, estimator, world_vars>>

\* Categorizer(handle_unknown=policy)
CategorizerInit(policy) ==
    /\ handle_unknown = policy
    /\ categories_ = EmptyDict
    /\ threshold_absolute = 0
    /\ threshold_relative = 0
    /\ other_value = "(other)"
    /\ categories_to_group_ = EmptyDict
    /\ missing_value = "(missing)"
    /\ estimator = "Categorizer"
    /\ op = "init"
    /\ X = NoTable
    /\ X_after = NoTable
    /\ X_fit = NoTable
    /\ peer = UnfittedPeer
    /\ WorldInit
    /\ result = Returned(NoTable)

CategorizerNext ==
    \/ \E T \in Tables : CategorizerFit(T)
    \/ \E T \in Tables : CategorizerTransform(T)
    \/ \E T \in Tables : CategorizerFitTransform(T)

\* one Categorizer per unknown-value policy
SpecError == CategorizerInit("error") /\ [][CategorizerNext]_vars
SpecIgnore == CategorizerInit("ignore") /\ [][CategorizerNext]_vars
SpecMissing == CategorizerInit("missing") /\ [][CategorizerNext]_vars
SpecMark == CategorizerInit("mark") /\ [][CategorizerNext]_vars

\* Categorizer(handle_unknown="na"), the third policy of the class docstring
SpecNa == CategorizerInit("na") /\ [][CategorizerNext]_vars

----------------------------------------------------------------------------
(* CategoryGrouper                                                         *)

\* the number of cells of the column that hold label l
CountOf(series, l) == Cardinality({r \in DOMAIN series.values : series.values[r] = l})

\* X[col].value_counts().rename_axis("value").reset_index(name="count"): one
\* row per declared category, missing cells not counted, sorted by falling
\* count; pandas does not fix the order of categories with equal counts, so
\* this is the set of the orders it may give
value_counts(series) ==
    LET n == Len(series.categories)
        row(k) == [value |-> series.categories[k],
                   count |-> CountOf(series, series.categories[k])]
        orders == {f \in [1..n -> 1..n] :
                      /\ \A i, j \in 1..n : f[i] = f[j] => i = j
                      /\ \A i, j \in 1..n : i < j => row(f[i]).count >= row(f[j]).count}
    IN  {[i \in 1..n |-> row(f[i])] : f \in orders}

\* value_counts["count"].sum()
count_sum(counts) ==
    LET RECURSIVE upto(_)
        upto(i) == IF i = 0 THEN 0 ELSE upto(i - 1) + counts[i].count
    IN  upto(Len(counts))

\* a variant that preserves a value meeting either threshold
preserve_mask_either(count, total, t_absolute, t_relative) ==
    \/ count >= t_absolute
    \/ (total # 0 /\ count * 100 >= t_relative * total)

\* preserve_absolute_mask & preserve_relative_mask for one row of the counts.
\* share = count / total is NaN when total = 0, and NaN >= threshold is
\* False; the relative threshold is held in hundredths
preserve_mask(count, total, t_absolute, t_relative) ==
    /\ count >= t_absolute
    /\ (total # 0 /\ count * 100 >= t_relative * total)

\* value_counts[~preserve_mask]["value"].tolist() for each order of the counts
categories_to_group(series, t_absolute, t_relative) ==
    {LET kill == SelectSeq(counts,
                           LAMBDA row : ~preserve_mask(row.count, count_sum(counts),
                                                       t_absolute, t_relative))
     IN  [i \in 1..Len(kill) |-> kill[i].value] :
        counts \in value_counts(series)}

\* a list stored in the defaultdict categories_to_group_
GroupEntry(labels) == [kind |-> "list", labels |-> labels]

\* the mappings the loop of CategoryGrouper.fit may leave, from column i on
RECURSIVE GrouperFitted(_, _, _, _, _)
GrouperFitted(groups, T, i, t_absolute, t_relative) ==
    IF i > NCols(T) THEN {groups}
    ELSE UNION {GrouperFitted([groups EXCEPT ![T.columns[i]] = GroupEntry(labels)],
                              T, i + 1, t_absolute, t_relative) :
                   labels \in categories_to_group(T.data[i], t_absolute, t_relative)}

\* Series.cat.add_categories(label): ValueError when the label is a category
add_categories_ok(series, label) == label \notin Range(series.categories)

\* a variant that puts the new category first
add_categories_first(series, label) ==
    [series EXCEPT !.categories = <<label>> \o series.categories]

add_categories(series, label) ==
    [series EXCEPT !.categories = Append(series.categories, label)]

\* Series.cat.remove_categories(removals): ValueError unless all are categories
remove_categories_ok(series, removals) == Range(removals) \subseteq Range(series.categories)

\* the cells that held a removed category become missing
remove_categories(series, removals) ==
    [series EXCEPT
        !.categories = SelectSeq(series.categories, LAMBDA l : l \notin Range(removals)),
        !.values = [r \in DOMAIN series.values |->
                       IF series.values[r] \in Range(removals) THEN NA
                       ELSE series.values[r]]]

\* a variant that selects the rows by the value of their cell in column i
loc_row_set_by_value(T, label, i, value) ==
    [T EXCEPT !.data[i].values = [r \in DOMAIN T.data[i].values |->
                                     IF T.data[i].values[r] = label THEN value
                                     ELSE T.data[i].values[r]]]

\* X_copy.loc[label, col] = value: label selects rows by their row label. It
\* sets the cell of every row so labelled; when no row is, the table is
\* enlarged by a row with that label, value in column i and missing elsewhere
loc_row_set(T, label, i, value) ==
    IF label \in Range(T.index)
    THEN [T EXCEPT !.data[i].values = [r \in DOMAIN T.data[i].values |->
                                          IF T.index[r] = label THEN value
                                          ELSE T.data[i].values[r]]]
    ELSE [T EXCEPT !.index = Append(T.index, label),
                   !.data = [j \in DOMAIN T.data |->
                                [T.data[j] EXCEPT !.values =
                                    Append(T.data[j].values, IF j = i THEN value ELSE NA)]]]

\* the inner loop of CategoryGrouper.transform over the grouped labels
RECURSIVE GroupRows(_, _, _, _, _)
GroupRows(T, old_categories, k, i, value) ==
    IF k > Len(old_categories) THEN T
    ELSE GroupRows(loc_row_set(T, old_categories[k], i, value), old_categories, k + 1, i, value)

\* the loop of CategoryGrouper.transform from column i on
RECURSIVE GrouperLoop(_, _, _, _)
GrouperLoop(other, X_copy, groups, i) ==
    IF i > NCols(X_copy)
    THEN [result |-> Returned(X_copy), categories_to_group_ |-> groups]
    ELSE LET col == X_copy.columns[i]
             touched == Touch(groups, col)
             old_categories == touched[col].labels
             series == X_copy.data[i]
             Fail(kind, reason) ==
                 [result |-> Raised(kind, reason, <<col>>, 0), categories_to_group_ |-> touched]
         IN  IF old_categories = <<>>
             THEN GrouperLoop(other, X_copy, touched, i + 1)
             ELSE IF series.dtype # "category"
             THEN Fail("AttributeError", "Can only use .cat accessor with a 'category' dtype")
             ELSE IF ~add_categories_ok(series, other)
             THEN Fail("ValueError", "new categories must not include old categories")
             ELSE LET added == SetColumn(X_copy, i, add_categories(series, other))
                      grouped == GroupRows(added, old_categories, 1, i, other)
                  IN  IF ~remove_categories_ok(grouped.data[i], old_categories)
                      THEN Fail("ValueError", "removals must all be in old categories")
                      ELSE GrouperLoop(other,
                                       SetColumn(grouped, i,
                                                 remove_categories(grouped.data[i], old_categories)),
                                       touched, i + 1)

\* CategoryGrouper.transform(X)
GrouperTransformOutcome(other, groups, T) ==
    IF ~check_is_fitted({"categories_to_group_"})
    THEN [result |-> Raised("NotFittedError", "not fitted", <<>>, 0),
          categories_to_group_ |-> groups]
    ELSE IF ~check_array(T)
    THEN [result |-> Raised("ValueError", "check_array", <<>>, 0),
          categories_to_group_ |-> groups]
    ELSE GrouperLoop(other, T, groups, 1)

\* CategoryGrouper.fit(X, y)
GrouperFit(T) ==
    /\ op' = "fit"
    /\ X' = T
    /\ X_after' = T
    /\ IF check_array(T) /\ check_categorical(T)
       THEN /\ categories_to_group_' \in
                   GrouperFitted(categories_to_group_, T, 1, threshold_absolute, threshold_relative)
            /\ X_fit' = T
            /\ result' = Returned(NoTable)
       ELSE /\ result' = Raised("ValueError", "not categorical",
                                non_categoricals(T), Len(non_categoricals(T)))
            /\ UNCHANGED <<categories_to_group_, X_fit>>
    /\ peer' = [peer EXCEPT !.categories_to_group_ = PeerAfter(categories_to_group_', @)]
    /\ UNCHANGED <<categorizer_vars, threshold_absolute, threshold_relative, other_value,
                   adder_vars, estimator, world_vars>>

\* CategoryGrouper.transform(X)
GrouperTransform(T) ==
    /\ op' = "transform"
    /\ X' = T
    /\ LET o == GrouperTransformOutcome(other_value, categories_to_group_, T)
       IN  /\ result' = o.result
           /\ categories_to_group_' = o.categories_to_group_
           /\ X_after' = copy(T, IF o.result.kind = "ok" THEN o.result.table ELSE T)
    /\ peer' = [peer EXCEPT !.categories_to_group_ = PeerAfter(categories_to_group_', @)]
    /\ UNCHANGED <<categorizer_vars, threshold_absolute, threshold_relative, other_value,
                   adder_vars, estimator, X_fit, world_vars>>

\* CategoryGrouper(threshold_absolute=t_absolute, threshold_relative=t_relative)
GrouperInit(t_absolute, t_relative) ==
    /\ handle_unknown = "error"
    /\ categories_ = EmptyDict
    /\ threshold_absolute = t_absolute
    /\ threshold_relative = t_relative
    /\ other_value = "(other)"
    /\ categories_to_group_ = EmptyDict
    /\ missing_value = "(missing)"
    /\ estimator = "CategoryGrouper"
    /\ op = "init"
    /\ X = NoTable
    /\ X_after = NoTable
    /\ X_fit = NoTable
    /\ peer = UnfittedPeer
    /\ WorldInit
    /\ result = Returned(NoTable)

\* the thresholds the grouper is built with: counts, and shares in hundredths
AbsoluteThresholds == {0, 1, 2}
RelativeThresholds == {0, 100}

\* the tables the grouper is given: one column, categorical or object
GrouperTables == ObjectTables(1) \cup UNION {CategoricalTables(n) : n \in 1..MaxRows}

\* the tables of the fits checked alone: these and the two-column tables
GrouperFitTables == GrouperTables \cup WideTables

GrouperNext ==
    \/ \E T \in GrouperTables : GrouperFit(T)
    \/ \E T \in GrouperTables : GrouperTransform(T)

\* the grouper of the tests, CategoryGrouper(threshold_absolute=2)
SpecGrouper == GrouperInit(2, 0) /\ [][GrouperNext]_vars

\* fit alone, for every pair of thresholds
GrouperFitNext == \E T \in GrouperFitTables : GrouperFit(T)

SpecGrouperFit ==
    /\ \E t_absolute \in AbsoluteThresholds, t_relative \in RelativeThresholds :
          GrouperInit(t_absolute, t_relative)
    /\ [][GrouperFitNext]_vars

\* integer category labels: "0" and "1" are the integers 0 and 1, which are
\* also the labels of the first two rows of the default index
IntegerLabelSeq == <<"0", "1">>

\* the one-column tables of n rows with integer categories
IntegerTables(n) ==
    {Frame(<<ColNames[1]>>, <<c>>) : c \in CategoricalColumns(IntegerLabelSeq, n)}

\* the tables the grouper with the default thresholds is given
GrouperDefaultTables ==
    ObjectTables(1) \cup UNION {CategoricalTables(n) \cup IntegerTables(n) : n \in 1..MaxRows}

GrouperDefaultNext ==
    \/ \E T \in GrouperDefaultTables : GrouperFit(T)
    \/ \E T \in GrouperDefaultTables : GrouperTransform(T)

\* the grouper with the default thresholds, CategoryGrouper()
SpecGrouperDefault == GrouperInit(0, 0) /\ [][GrouperDefaultNext]_vars

----------------------------------------------------------------------------
(* CategoryMissingAdder                                                    *)

\* a variant that also writes the new category into the missing cells
AdderColumnFilled(series, value) ==
    [add_categories(series, value) EXCEPT
        !.values = [r \in DOMAIN series.values |->
                       IF series.values[r] = NA THEN value ELSE series.values[r]]]

\* X_copy[col].cat.add_categories(self.missing_value)
AdderColumn(series, value) == add_categories(series, value)

\* the loop of CategoryMissingAdder.transform from column i on
RECURSIVE AdderLoop(_, _, _)
AdderLoop(value, X_copy, i) ==
    IF i > NCols(X_copy) THEN Returned(X_copy)
    ELSE LET col == X_copy.columns[i]
             series == X_copy.data[i]
         IN  IF series.dtype # "category"
             THEN Raised("AttributeError", "Can only use .cat accessor with a 'category' dtype",
                         <<col>>, 0)
             ELSE IF ~add_categories_ok(series, value)
             THEN Raised("ValueError", "new categories must not include old categories",
                         <<col>>, 0)
             ELSE AdderLoop(value, SetColumn(X_copy, i, AdderColumn(series, value)), i + 1)

\* CategoryMissingAdder.transform(X): it has no check_is_fitted
AdderTransformOutcome(value, T) ==
    IF ~check_array(T) THEN Raised("ValueError", "check_array", <<>>, 0)
    ELSE AdderLoop(value, T, 1)

\* CategoryMissingAdder.fit(X, y)
AdderFit(T) ==
    /\ op' = "fit"
    /\ X' = T
    /\ X_after' = T
    /\ result' = IF check_array(T) /\ check_categorical(T)
                 THEN Returned(NoTable)
                 ELSE Raised("ValueError", "not categorical",
                             non_categoricals(T), Len(non_categoricals(T)))
    /\ UNCHANGED <<categorizer_vars, grouper_vars, adder_vars, estimator, X_fit, peer, world_vars>>

\* CategoryMissingAdder.transform(X)
AdderTransform(T) ==
    /\ op' = "transform"
    /\ X' = T
    /\ LET o == AdderTransformOutcome(missing_value, T)
       IN  /\ result' = o
           /\ X_after' = copy(T, IF o.kind = "ok" THEN o.table ELSE T)
    /\ UNCHANGED <<categorizer_vars, grouper_vars, adder_vars, estimator, X_fit, peer, world_vars>>

\* CategoryMissingAdder.transform(X) where X is the table the last transform
\* returned
AdderTransformAgain ==
    /\ op \in {"transform", "transform_again"}
    /\ result.kind = "ok"
    /\ op' = "transform_again"
    /\ X' = result.table
    /\ LET o == AdderTransformOutcome(missing_value, result.table)
       IN  /\ result' = o
           /\ X_after' = copy(result.table, IF o.kind = "ok" THEN o.table ELSE result.table)
    /\ UNCHANGED <<categorizer_vars, grouper_vars, adder_vars, estimator, X_fit, peer, world_vars>>

\* CategoryMissingAdder()
AdderInit ==
    /\ handle_unknown = "error"
    /\ categories_ = EmptyDict
    /\ threshold_absolute = 0
    /\ threshold_relative = 0
    /\ other_value = "(other)"
    /\ categories_to_group_ = EmptyDict
    /\ missing_value = "(missing)"
    /\ estimator = "CategoryMissingAdder"
    /\ op = "init"
    /\ X = NoTable
    /\ X_after = NoTable
    /\ X_fit = NoTable
    /\ peer = UnfittedPeer
    /\ WorldInit
    /\ result = Returned(NoTable)

AdderNext ==
    \/ \E T \in Tables : AdderFit(T)
    \/ \E T \in Tables : AdderTransform(T)
    \/ AdderTransformAgain

SpecAdder == AdderInit /\ [][AdderNext]_vars

----------------------------------------------------------------------------
(* _check_categorical called on its own.                                   *)

\* pd.Series(values, dtype=np.int64), n rows; "1" and "2" are the integers
NumericColumns(n) ==
    {[dtype |-> "int64", categories |-> <<>>, values |-> v] : v \in [1..n -> {"1", "2"}]}

\* the two-column tables of one row with columns of any dtype
MixedTables ==
    LET cols == CategoricalColumns(LabelSeq, 1) \cup ObjectColumns(1) \cup NumericColumns(1)
    IN  {Frame(ColNames, <<c1, c2>>) : c1 \in cols, c2 \in cols}

\* the tables _check_categorical is given
CheckTables == MixedTables \cup UNION {NarrowTables(n) : n \in 1..MaxRows}

\* _check_categorical(X), called on its own
CheckCategorical(T) ==
    /\ op' = "_check_categorical"
    /\ X' = T
    /\ X_after' = T
    /\ result' = IF check_categorical(T)
                 THEN Returned(NoTable)
                 ELSE Raised("ValueError", "All columns passed must be categorical dtype",
                             non_categoricals(T), Len(non_categoricals(T)))
    /\ UNCHANGED <<categorizer_vars, grouper_vars, adder_vars, estimator, X_fit, peer, world_vars>>

\* no estimator: the function is called on tables
CheckInit ==
    /\ handle_unknown = "error"
    /\ categories_ = EmptyDict
    /\ threshold_absolute = 0
    /\ threshold_relative = 0
    /\ other_value = "(other)"
    /\ categories_to_group_ = EmptyDict
    /\ missing_value = "(missing)"
    /\ estimator = "None"
    /\ op = "init"
    /\ X = NoTable
    /\ X_after = NoTable
    /\ X_fit = NoTable
    /\ peer = UnfittedPeer
    /\ WorldInit
    /\ result = Returned(NoTable)

CheckNext == \E T \in CheckTables : CheckCategorical(T)

SpecCheck == CheckInit /\ [][CheckNext]_vars

----------------------------------------------------------------------------
(* dstoolbox.pandas.validation.check_indices_all_equal                     *)

\* the most arguments of a call
MaxArgs == 4

\* the indices of the objects passed
Indices == {RangeIndex(1), RangeIndex(2), <<"1">>}

\* _pairwise(args): an iterator over the pairs of successive arguments
pairwise(args) == [i \in 1..(Len(args) - 1) |-> <<args[i], args[i + 1]>>]

\* what an iterator still yields when k of its items have been taken
remaining(iterator, k) == SubSeq(iterator, k + 1, Len(iterator))

\* check_indices_all_equal(*args)
check_indices_all_equal(args) ==
    LET pairs == pairwise(args)
        pairs_equal == [i \in 1..Len(pairs) |-> pairs[i][1] = pairs[i][2]]
        \* the list comprehension of line 32 has taken every item of pairs
        rest == remaining(pairs, Len(pairs))
        unequal_ix == {ix \in 1..Len(rest) : ~pairs_equal[ix]}
    IN  IF \A i \in 1..Len(pairs) : pairs_equal[i]
        THEN Returned(NoTable)
        ELSE IF unequal_ix = {}
        THEN Raised("IndexError", "list index out of range", <<>>, 0)
        ELSE Raised("ValueError", "indices not identical", <<>>, 0)

CheckIndices(args) ==
    /\ op' = "check_indices_all_equal"
    /\ X' = args
    /\ X_after' = args
    /\ result' = check_indices_all_equal(args)
    /\ UNCHANGED <<categorizer_vars, grouper_vars, adder_vars, estimator, X_fit, peer, world_vars>>

IndicesNext ==
    \E n \in 0..MaxArgs : \E args \in [1..n -> Indices] : CheckIndices(args)

SpecIndices == CheckInit /\ [][IndicesNext]_vars

----------------------------------------------------------------------------
(* dstoolbox.pandas.data_munging.find_duplicated_columns                   *)

\* the most columns of a table
MaxColumns == 3

\* one-row columns of three dtypes; "1" and "2" are numbers
DtypedColumns ==
    {[dtype |-> d, values |-> <<v>>] : d \in {"int64", "float64", "object"}, v \in {"1", "2"}}

\* col1.equals(col2): the same dtype and the same values
equals(col1, col2) == col1.dtype = col2.dtype /\ col1.values = col2.values

\* the inner loop from column j on: TRUE when it appends columns[i]
RECURSIVE IsDupe(_, _, _)
IsDupe(df, i, j) ==
    IF j > Len(df) THEN FALSE
    ELSE IF df[i].dtype # df[j].dtype THEN FALSE
    ELSE IF equals(df[i], df[j]) THEN TRUE
    ELSE IsDupe(df, i, j + 1)

\* find_duplicated_columns(df): df is the sequence of its columns, and the
\* name of a column is its position
find_duplicated_columns(df) ==
    SelectSeq([i \in 1..Len(df) |-> i], LAMBDA i : IsDupe(df, i, i + 1))

FindDuplicatedColumns(df) ==
    /\ op' = "find_duplicated_columns"
    /\ X' = df
    /\ X_after' = df
    /\ result' = [kind |-> "ok", dupes |-> find_duplicated_columns(df)]
    /\ UNCHANGED <<categorizer_vars, grouper_vars, adder_vars, estimator, X_fit, peer, world_vars>>

DuplicatesNext ==
    \E n \in 1..MaxColumns : \E df \in [1..n -> DtypedColumns] : FindDuplicatedColumns(df)

SpecDuplicates == CheckInit /\ [][DuplicatesNext]_vars

----------------------------------------------------------------------------
(* ds_toolbox.pandas.compression.compress_dataset, int64 columns           *)

INT8_MIN == -128
INT8_MAX == 127
INT16_MIN == -32768
INT16_MAX == 32767
INT32_MIN == -2147483647 - 1
INT32_MAX == 2147483647

\* the values of the int64 columns: around the limits of the types and around
\* the half of the int8 limits, all of them within int32
ColumnValues ==
    {INT32_MIN, INT32_MIN + 1, INT16_MIN, INT16_MIN + 1, INT8_MIN,
     (INT8_MIN \div 2), (INT8_MIN \div 2) + 1, 0, (INT8_MAX \div 2), (INT8_MAX \div 2) + 1,
     INT8_MAX, INT16_MAX - 1, INT16_MAX, INT32_MAX - 1, INT32_MAX}

\* the values min_int_bits is given
IntBits == {8, 16, 32, 64}

\* the type the if-chain of lines 83-105 casts an int64 column to, as its
\* number of bits. INT8_MIN / 2 is -64.0 and INT8_MAX / 2 is 63.5, so
\* col_max < INT8_MAX / 2 is col_max <= 63
int_bits(col_min, col_max, min_int_bits) ==
    IF min_int_bits <= 8 /\ (INT8_MIN \div 2) < col_min /\ col_max <= (INT8_MAX \div 2)
    THEN 8
    ELSE IF min_int_bits <= 16 /\ INT16_MIN < col_min /\ col_max < INT16_MAX
    THEN 16
    ELSE IF min_int_bits <= 32 /\ INT32_MIN < col_min /\ col_max < INT32_MAX
    THEN 32
    ELSE 64

\* astype(np.int8), astype(np.int16): the value wraps into the type; the
\* values of the model are within int32, which the wider types hold
astype_int(v, bits) ==
    CASE bits = 8 -> ((v - INT8_MIN) % 256) + INT8_MIN
      [] bits = 16 -> ((v - INT16_MIN) % 65536) + INT16_MIN
      [] OTHER -> v

\* compress_dataset(df, min_int_bits) for an int64 column with the values
\* col_min and col_max
CompressDataset(col_min, col_max, min_int_bits) ==
    /\ op' = "compress_dataset"
    /\ X' = [values |-> <<col_min, col_max>>, min_int_bits |-> min_int_bits]
    /\ X_after' = X'
    /\ LET bits == int_bits(col_min, col_max, min_int_bits)
       IN  result' = [kind |-> "ok", bits |-> bits,
                      values |-> <<astype_int(col_min, bits), astype_int(col_max, bits)>>]
    /\ UNCHANGED <<categorizer_vars, grouper_vars, adder_vars, estimator, X_fit, peer, world_vars>>

CompressNext ==
    \E col_min \in ColumnValues, col_max \in ColumnValues, min_int_bits \in IntBits :
        col_min <= col_max /\ CompressDataset(col_min, col_max, min_int_bits)

SpecCompress == CheckInit /\ [][CompressNext]_vars

----------------------------------------------------------------------------
(* dstoolbox.snowflake.utils.check_is_fresh, same_day=False                *)

\* the greatest age of the object, in half hours
MaxHalfHours == 100

\* the greatest max_hours
MaxMaxHours == 3

\* timedelta.seconds of datetime.now() - last_modified: the seconds of the
\* difference without its whole days (86400 seconds each)
timedelta_seconds(age) == age % 86400

\* check_is_fresh(object_name, engine, same_day=False, max_hours=max_hours)
\* for an object modified age seconds ago
check_is_fresh(age, max_hours) ==
    LET same_day_satisfied == TRUE
        max_hours_satisfied ==
            IF max_hours # 0
            THEN timedelta_seconds(age) < max_hours * 60 * 60
            ELSE TRUE
    IN  max_hours_satisfied /\ same_day_satisfied

CheckIsFresh(age, max_hours) ==
    /\ op' = "check_is_fresh"
    /\ X' = [age |-> age, max_hours |-> max_hours]
    /\ X_after' = X'
    /\ result' = [kind |-> "ok", value |-> check_is_fresh(age, max_hours)]
    /\ UNCHANGED <<categorizer_vars, grouper_vars, adder_vars, estimator, X_fit, peer, world_vars>>

FreshNext ==
    \E k \in 0..MaxHalfHours, max_hours \in 1..MaxMaxHours : CheckIsFresh(k * 1800, max_hours)

SpecFresh == CheckInit /\ [][FreshNext]_vars

----------------------------------------------------------------------------
(* dstoolbox.utils.jinja2.execute_template, one call at a time             *)

\* the greatest number of queries sent to the warehouse
MaxQueries == 3

\* the texts template.render returns
RenderedTemplates == {"select 1", "select 2"}

\* lines 66-70: open(query_dump_file, "w") and f.write(rendered_template),
\* under if dump_query
write_dump(dump_query, file, rendered_template) ==
    IF dump_query THEN rendered_template ELSE file

\* a variant that removes the dump file whatever dump_query is
unlink_always(dump_query, file) == NoFile

\* lines 84-86: query_dump_file.unlink(), under if dump_query
unlink(dump_query, file) == IF dump_query THEN NoFile ELSE file

\* lines 61-63: the call starts and renders the template
ExecRender(rendered_template, dump_query) ==
    /\ pc = "idle"
    /\ Len(queries) < MaxQueries
    /\ pc' = "rendered"
    /\ op' = "execute_template"
    /\ X' = [rendered_template |-> rendered_template, dump_query |-> dump_query]
    /\ X_after' = X'
    /\ UNCHANGED <<categorizer_vars, grouper_vars, adder_vars, estimator, X_fit, peer,
                   dump_file, queries, result>>

\* lines 66-70
ExecDump ==
    /\ pc = "rendered"
    /\ pc' = "dumped"
    /\ dump_file' = write_dump(X.dump_query, dump_file, X.rendered_template)
    /\ UNCHANGED <<categorizer_vars, grouper_vars, adder_vars, estimator, op, X, X_after,
                   X_fit, peer, queries, result>>

\* line 78: snow.read_data(rendered_template) returns the result set
ExecRead ==
    /\ pc = "dumped"
    /\ pc' = "read"
    /\ queries' = Append(queries, X.rendered_template)
    /\ UNCHANGED <<categorizer_vars, grouper_vars, adder_vars, estimator, op, X, X_after,
                   X_fit, peer, dump_file, result>>

\* line 78: snow.read_data(rendered_template) raises, and execute_template
\* with it
ExecReadFails ==
    /\ pc = "dumped"
    /\ pc' = "idle"
    /\ queries' = Append(queries, X.rendered_template)
    /\ result' = Raised("Exception", "read_data", <<>>, 0)
    /\ UNCHANGED <<categorizer_vars, grouper_vars, adder_vars, estimator, op, X, X_after,
                   X_fit, peer, dump_file>>

\* lines 84-88
ExecUnlink ==
    /\ pc = "read"
    /\ pc' = "idle"
    /\ dump_file' = unlink(X.dump_query, dump_file)
    /\ result' = Returned(NoTable)
    /\ UNCHANGED <<categorizer_vars, grouper_vars, adder_vars, estimator, op, X, X_after,
                   X_fit, peer, queries>>

TemplateNext ==
    \/ \E rendered_template \in RenderedTemplates, dump_query \in BOOLEAN :
           ExecRender(rendered_template, dump_query)
    \/ ExecDump
    \/ ExecRead
    \/ ExecReadFails
    \/ ExecUnlink

SpecTemplate == CheckInit /\ [][TemplateNext]_vars

----------------------------------------------------------------------------
(* The three estimators together: one object of any of the classes.        *)

Policies == {"error", "ignore", "missing", "mark"}

EstimatorInit ==
    \/ \E policy \in Policies : CategorizerInit(policy)
    \/ GrouperInit(2, 0)
    \/ AdderInit

EstimatorNext ==
    \/ /\ estimator = "Categorizer"
       /\ \E T \in GrouperTables : CategorizerFit(T) \/ CategorizerTransform(T)
    \/ /\ estimator = "CategoryGrouper"
       /\ \E T \in GrouperTables : GrouperFit(T) \/ GrouperTransform(T)
    \/ /\ estimator = "CategoryMissingAdder"
       /\ \/ \E T \in GrouperTables : AdderFit(T) \/ AdderTransform(T)
          \/ AdderTransformAgain

SpecEstimators == EstimatorInit /\ [][EstimatorNext]_vars

----------------------------------------------------------------------------
(* Two objects of one class: this object and its peer.                     *)

\* Categorizer.fit(X, y) called on the peer
PeerCategorizerFit(T) ==
    /\ op' = "peer_fit"
    /\ X' = T
    /\ X_after' = T
    /\ IF check_array(T) /\ check_categorical(T)
       THEN /\ peer' = [peer EXCEPT !.categories_ = CategorizerFitted(@, T)]
            /\ result' = Returned(NoTable)
       ELSE /\ result' = Raised("ValueError", "not categorical",
                                non_categoricals(T), Len(non_categoricals(T)))
            /\ UNCHANGED peer
    /\ categories_' = PeerAfter(peer'.categories_, categories_)
    /\ UNCHANGED <<handle_unknown, X_fit, grouper_vars, adder_vars, estimator, world_vars>>

\* CategoryGrouper.fit(X, y) called on the peer
PeerGrouperFit(T) ==
    /\ op' = "peer_fit"
    /\ X' = T
    /\ X_after' = T
    /\ IF check_array(T) /\ check_categorical(T)
       THEN /\ \E groups \in GrouperFitted(peer.categories_to_group_, T, 1,
                                           threshold_absolute, threshold_relative) :
                   peer' = [peer EXCEPT !.categories_to_group_ = groups]
            /\ result' = Returned(NoTable)
       ELSE /\ result' = Raised("ValueError", "not categorical",
                                non_categoricals(T), Len(non_categoricals(T)))
            /\ UNCHANGED peer
    /\ categories_to_group_' = PeerAfter(peer'.categories_to_group_, categories_to_group_)
    /\ UNCHANGED <<categorizer_vars, threshold_absolute, threshold_relative, other_value,
                   adder_vars, estimator, X_fit, world_vars>>

InstancesInit ==
    \/ CategorizerInit("error")
    \/ GrouperInit(2, 0)

\* the tables the two objects are given: one column, one row
InstanceTables == NarrowTables(1)

InstancesNext ==
    \/ /\ estimator = "Categorizer"
       /\ \E T \in InstanceTables :
             CategorizerFit(T) \/ CategorizerTransform(T) \/ PeerCategorizerFit(T)
    \/ /\ estimator = "CategoryGrouper"
       /\ \E T \in InstanceTables :
             GrouperFit(T) \/ GrouperTransform(T) \/ PeerGrouperFit(T)

SpecInstances == InstancesInit /\ [][InstancesNext]_vars

----------------------------------------------------------------------------
(* Properties of Categorizer.                                              *)

\* the fitted domain of column name c. A transform only ever inserts empty
\* lists into categories_, so this is the same set before and after it
FittedDomain(c) == Range(categories_[c].labels)

\* the non-missing values of column i of table T
Observed(T, i) == {T.data[i].values[r] : r \in 1..NRows(T)} \ {NA}

\* the unknown values of column i of the table of the last call
Unknown(i) == Observed(X, i) \ FittedDomain(X.columns[i])

ColumnsWithUnknowns == {i \in 1..NCols(X) : Unknown(i) # {}}

\* C1: under handle_unknown = "error" transform raises the ValueError about
\* unknown categories exactly when some column holds a non-missing value
\* outside its fitted domain, and the message names such a column and the
\* number of its distinct unknown values
C1_ErrorPolicyRaises ==
    (handle_unknown = "error" /\ op = "transform") =>
        IF ColumnsWithUnknowns = {}
        THEN result.kind = "ok"
        ELSE /\ result.kind = "ValueError"
             /\ result.reason = "unknown categories"
             /\ \E i \in ColumnsWithUnknowns :
                   /\ result.cols = <<X.columns[i]>>
                   /\ result.count = Cardinality(Unknown(i))

\* C1 happens: the second column of a table holds the unknown value
C1_Witness ==
    /\ handle_unknown = "error" /\ op = "transform"
    /\ result.kind = "ValueError" /\ result.cols = <<"var2">> /\ result.count = 1
    /\ FittedDomain("var2") # {}

\* the columns with unknown values that a fit gave a non-empty domain
FittedUnknowns ==
    {i \in ColumnsWithUnknowns :
        categories_[X.columns[i]].kind = "Index" /\ FittedDomain(X.columns[i]) # {}}

\* C2: under handle_unknown = "mark" transform returns, in every fitted column
\* that holds unknown values, "(unknown)" in their cells, every other cell
\* unchanged, and the domain fitted domain + "(unknown)"
C2_MarkPolicy ==
    (handle_unknown = "mark" /\ op = "transform" /\ FittedUnknowns # {}) =>
        /\ result.kind = "ok"
        /\ \A i \in FittedUnknowns :
              /\ \A r \in 1..NRows(X) :
                    result.table.data[i].values[r] =
                        IF X.data[i].values[r] \in Unknown(i)
                        THEN "(unknown)" ELSE X.data[i].values[r]
              /\ Range(result.table.data[i].categories) =
                    FittedDomain(X.columns[i]) \cup {"(unknown)"}

\* C3: under handle_unknown = "ignore" transform returns every cell of a
\* fitted column that holds unknown values unchanged, and the column with the
\* domain fitted domain + its unknown values
C3_IgnorePolicy ==
    (handle_unknown = "ignore" /\ op = "transform" /\ FittedUnknowns # {}) =>
        /\ result.kind = "ok"
        /\ \A i \in FittedUnknowns :
              /\ result.table.data[i].values = X.data[i].values
              /\ Range(result.table.data[i].categories) =
                    FittedDomain(X.columns[i]) \cup Unknown(i)

\* C4: under handle_unknown = "missing" transform returns every cell whose
\* value is outside the fitted domain as missing, every other cell unchanged,
\* and each column with exactly the fitted domain
C4_MissingPolicy ==
    (handle_unknown = "missing" /\ op = "transform") =>
        /\ result.kind = "ok"
        /\ \A i \in 1..NCols(X) :
              /\ \A r \in 1..NRows(X) :
                    result.table.data[i].values[r] =
                        IF X.data[i].values[r] \in FittedDomain(X.columns[i])
                        THEN X.data[i].values[r] ELSE NA
              /\ result.table.data[i].dtype = "category"
              /\ result.table.data[i].categories = categories_[X.columns[i]].labels

\* C4 happens: a column with a known and an unknown value was transformed
C4_Witness ==
    /\ handle_unknown = "missing" /\ op = "transform" /\ result.kind = "ok"
    /\ \E i \in 1..NCols(X) :
          /\ Unknown(i) # {}
          /\ Observed(X, i) \cap FittedDomain(X.columns[i]) # {}
          /\ result.table.data[i].values # X.data[i].values

\* C5 as stated: fit(T) then transform(T) under "error" never raises and the
\* domain of each output column is the set of values observed in T's column
C5_RoundTripObserved ==
    (handle_unknown = "error" /\ op = "fit_transform" /\ check_categorical(X)) =>
        /\ result.kind = "ok"
        /\ \A i \in 1..NCols(X) :
              Range(result.table.data[i].categories) = Observed(X, i)

\* C5 amended: fit(T) then transform(T) under "error" never raises and the
\* domain of each output column is the domain T's column declares, unobserved
\* labels included
C5_RoundTripDeclared ==
    (handle_unknown = "error" /\ op = "fit_transform" /\ check_categorical(X)) =>
        /\ result.kind = "ok"
        /\ \A i \in 1..NCols(X) :
              /\ result.table.data[i].categories = X.data[i].categories
              /\ Observed(X, i) \subseteq Range(result.table.data[i].categories)
              /\ result.table.data[i].values = X.data[i].values

\* C5 happens: the round trip of a table that declares a label it never uses
C5_Witness ==
    /\ handle_unknown = "error" /\ op = "fit_transform" /\ result.kind = "ok"
    /\ \E i \in 1..NCols(X) :
          /\ Observed(X, i) # {}
          /\ Observed(X, i) # Range(X.data[i].categories)

\* C6, state part: a fit that returns stores the domain each column declares;
\* a transform under "error" of a table without unknown values returns each
\* column with exactly the stored domain, the missing marker not in it
C6_State ==
    /\ (handle_unknown = "error" /\ op = "fit" /\ result.kind = "ok") =>
            \A i \in 1..NCols(X) :
                categories_[X.columns[i]] = IndexEntry(X.data[i].categories)
    /\ (handle_unknown = "error" /\ op = "transform" /\ ColumnsWithUnknowns = {}) =>
            /\ result.kind = "ok"
            /\ \A i \in 1..NCols(X) :
                  /\ result.table.data[i].dtype = "category"
                  /\ result.table.data[i].categories = categories_[X.columns[i]].labels
                  /\ NA \notin Range(result.table.data[i].categories)

\* C6, step part: between fits the stored domain of a column stays what the
\* fit stored
C6_Step ==
    \A c \in DOMAIN categories_ :
        (op' = "transform" /\ categories_[c].kind = "Index") => categories_'[c] = categories_[c]

\* C6: when every non-missing value of the table is in the fitted domain,
\* transform under "error" returns each column with exactly the domain the
\* fit column declared
C6_NoUnknowns == []C6_State /\ [][C6_Step]_vars

\* C6 happens: the fitted domain holds a label the transformed table does not
\* use, and the table holds a missing value
C6_Witness ==
    /\ handle_unknown = "error" /\ op = "transform" /\ result.kind = "ok"
    /\ \E i \in 1..NCols(X) :
          /\ categories_[X.columns[i]].kind = "Index"
          /\ FittedDomain(X.columns[i]) \ Observed(X, i) # {}
          /\ Observed(X, i) # {}
          /\ NA \in Range(X.data[i].values)

----------------------------------------------------------------------------
(* Properties of CategoryGrouper.                                          *)

\* the number of cells of column i of table T that hold label l
Occurrences(T, i, l) == Cardinality({r \in 1..NRows(T) : T.data[i].values[r] = l})

\* the number of non-missing cells of column i of table T
NonMissing(T, i) == Cardinality({r \in 1..NRows(T) : T.data[i].values[r] # NA})

\* label l of column i of T meets both thresholds: count >= threshold_absolute
\* and share >= threshold_relative, the share being count / non-missing
\* cells, which no label has in a column without non-missing cells
MeetsBoth(T, i, l) ==
    /\ Occurrences(T, i, l) >= threshold_absolute
    /\ NonMissing(T, i) > 0
    /\ Occurrences(T, i, l) * 100 >= threshold_relative * NonMissing(T, i)

\* the grouped set of column name c
GroupedSet(c) == Range(categories_to_group_[c].labels)

\* C7: after fit, the grouped set of a column holds exactly the labels of its
\* domain that do not meet both thresholds, so a label is preserved if and
\* only if it meets the absolute and the relative threshold
C7_PreservedIffBoth ==
    (op = "fit" /\ result.kind = "ok") =>
        \A i \in 1..NCols(X) :
            /\ categories_to_group_[X.columns[i]].kind = "list"
            /\ GroupedSet(X.columns[i]) =
                  {l \in Range(X.data[i].categories) : ~MeetsBoth(X, i, l)}

\* C7 happens: a label that meets the absolute threshold is grouped for its
\* share
C7_Witness ==
    /\ op = "fit" /\ result.kind = "ok" /\ threshold_absolute > 0
    /\ \E i \in 1..NCols(X) : \E l \in GroupedSet(X.columns[i]) :
          Occurrences(X, i, l) >= threshold_absolute

\* the columns of the transformed table that the last fit saw with the same
\* declared domain
SameDomainColumns ==
    {i \in 1..NCols(X) :
        /\ ColPos(X_fit, X.columns[i]) # 0
        /\ X.data[i].dtype = "category"
        /\ X.data[i].categories = X_fit.data[ColPos(X_fit, X.columns[i])].categories}

\* the labels of column i that the last fit preserved, in their declared order
PreservedAtFit(i) ==
    LET j == ColPos(X_fit, X.columns[i])
    IN  SelectSeq(X_fit.data[j].categories, LAMBDA l : MeetsBoth(X_fit, j, l))

\* C8: transform of a column with the domain the fit column declared returns
\* the preserved labels in their order followed by other_value when some label
\* was grouped, and the domain unchanged when none was
C8_TransformedDomain ==
    (op = "transform" /\ X_fit # NoTable) =>
        \A i \in SameDomainColumns :
            /\ result.kind = "ok"
            /\ result.table.data[i].categories =
                  IF PreservedAtFit(i) = X.data[i].categories
                  THEN X.data[i].categories
                  ELSE Append(PreservedAtFit(i), other_value)

\* C8 happens: some labels of the domain were preserved and some grouped, and
\* the transformed table is not the fitted table
C8_Witness ==
    /\ op = "transform" /\ result.kind = "ok" /\ X # X_fit
    /\ \E i \in SameDomainColumns :
          /\ PreservedAtFit(i) # <<>>
          /\ PreservedAtFit(i) # X.data[i].categories
          /\ Len(result.table.data[i].categories) = Len(PreservedAtFit(i)) + 1

\* C9: transform returns other_value in every cell whose value is not a
\* preserved label and leaves the cells with a preserved label unchanged
C9_CellsGrouped ==
    (op = "transform" /\ result.kind = "ok" /\ X_fit # NoTable) =>
        \A i \in SameDomainColumns : \A r \in 1..NRows(X) :
            X.data[i].values[r] # NA =>
                result.table.data[i].values[r] =
                    IF X.data[i].values[r] \in Range(PreservedAtFit(i))
                    THEN X.data[i].values[r] ELSE other_value

\* C10: after a fit that preserved every label, transform returns other_value
\* in every cell that holds a value the fit column did not declare
C10_UnseenGrouped ==
    (op = "transform" /\ result.kind = "ok" /\ X_fit # NoTable) =>
        \A i \in 1..NCols(X) :
            LET j == ColPos(X_fit, X.columns[i])
            IN  (/\ j # 0
                 /\ X.data[i].dtype = "category"
                 /\ X_fit.data[j].categories # <<>>
                 /\ GroupedSet(X.columns[i]) = {}) =>
                    \A r \in 1..NRows(X) :
                        (/\ X.data[i].values[r] # NA
                         /\ X.data[i].values[r] \notin Range(X_fit.data[j].categories)) =>
                            result.table.data[i].values[r] = other_value

\* C11: with the default thresholds, every cell that is missing in the table
\* given to transform is missing in the table it returns
C11_MissingKept ==
    (op = "transform" /\ result.kind = "ok") =>
        \A i \in 1..NCols(X) : \A r \in 1..NRows(X) :
            X.data[i].values[r] = NA => result.table.data[i].values[r] = NA

\* C12: the share fit compares with threshold_relative is the count of the
\* label over the number of rows of the table, so a label is preserved if and
\* only if its count meets threshold_absolute and its share of all rows meets
\* threshold_relative
C12_ShareOfAllRows ==
    (op = "fit" /\ result.kind = "ok") =>
        \A i \in 1..NCols(X) :
            GroupedSet(X.columns[i]) =
                {l \in Range(X.data[i].categories) :
                    ~(/\ Occurrences(X, i, l) >= threshold_absolute
                      /\ Occurrences(X, i, l) * 100 >= threshold_relative * NRows(X))}

\* C13: with the default thresholds fit leaves every grouped set empty, and
\* transform returns every all-categorical table as it was given
C13_DefaultsFilterNothing ==
    /\ (op = "fit" /\ result.kind = "ok") =>
          \A i \in 1..NCols(X) : GroupedSet(X.columns[i]) = {}
    /\ (op = "transform" /\ X_fit # NoTable
            /\ \A i \in 1..NCols(X) : X.data[i].dtype = "category") =>
          (result.kind = "ok" /\ result.table = X)

----------------------------------------------------------------------------
(* Properties of CategoryMissingAdder.                                     *)

\* C14: transform of the table a transform returned does not fail and returns
\* the domains of that table, missing_value once in each
C14_Idempotent ==
    op = "transform_again" =>
        /\ result.kind = "ok"
        /\ \A i \in 1..NCols(X) :
              result.table.data[i].categories = X.data[i].categories

\* C15: a transform that returns has given every column the domain of the
\* input followed by missing_value and has left every cell, the missing ones
\* included, and every row as it was; it returns for every all-categorical
\* table without missing_value in a domain, and for no other
C15_DomainExtended ==
    (estimator = "CategoryMissingAdder" /\ op \in {"transform", "transform_again"}) =>
        /\ result.kind = "ok" <=>
              \A i \in 1..NCols(X) :
                  /\ X.data[i].dtype = "category"
                  /\ missing_value \notin Range(X.data[i].categories)
        /\ result.kind = "ok" =>
              /\ result.table.index = X.index
              /\ result.table.columns = X.columns
              /\ \A i \in 1..NCols(X) :
                    /\ result.table.data[i].categories =
                          Append(X.data[i].categories, missing_value)
                    /\ result.table.data[i].values = X.data[i].values

\* C15 happens: a table with a missing cell and a labelled cell was transformed
C15_Witness ==
    /\ estimator = "CategoryMissingAdder" /\ op = "transform" /\ result.kind = "ok"
    /\ \E i \in 1..NCols(X) :
          /\ \E r \in 1..NRows(X) : X.data[i].values[r] = NA
          /\ \E r \in 1..NRows(X) : X.data[i].values[r] # NA
          /\ missing_value \in Range(result.table.data[i].categories)

----------------------------------------------------------------------------
(* Properties of the three estimators.                                     *)

\* C16: a transform called on an object whose fit was never called raises
\* the not-fitted error and returns no table
C16_NotFitted ==
    [][(op = "init" /\ op' = "transform") =>
          (result'.kind = "NotFittedError" /\ result'.table = NoTable)]_vars

\* C17: after a fit that returned, the mapping is one a fresh estimator has
\* after the fit of the same table alone
C17_RefitReplaces ==
    (op = "fit" /\ result.kind = "ok") =>
        categories_to_group_ \in
            GrouperFitted(EmptyDict, X, 1, threshold_absolute, threshold_relative)

\* C18: once fitted, the mapping of a Categorizer, its keys included, is left
\* as it was by every transform and by every fit that fails
C18_MappingFrozen ==
    [][((\E c \in DOMAIN categories_ : categories_[c].kind = "Index")
          /\ (op' = "transform" \/ (op' = "fit" /\ result'.kind # "ok")))
       => categories_' = categories_]_vars

----------------------------------------------------------------------------
(* Properties of _check_categorical.                                       *)

\* the positions of the columns of X that are not categorical
NonCategoricalPositions == {i \in 1..NCols(X) : X.data[i].dtype # "category"}

----------------------------------------------------------------------------
(* Properties of two objects of one class.                                 *)

----------------------------------------------------------------------------
(* Properties of the pandas helpers.                                       *)

\* C23: check_indices_all_equal raises ValueError when two successive
\* arguments have unequal indices, and returns when none have
C23_UnequalRaisesValueError ==
    op = "check_indices_all_equal" =>
        LET unequal == \E i \in 1..(Len(X) - 1) : X[i] # X[i + 1]
        IN  /\ unequal => result.kind = "ValueError"
            /\ ~unequal => result.kind = "ok"

\* the columns of X with the dtype and the values of a column in Others
Twins(Others) ==
    {i \in 1..Len(X) : \E j \in Others \ {i} :
        X[i].dtype = X[j].dtype /\ X[i].values = X[j].values}

\* C24: find_duplicated_columns returns every column that is identical to a
\* column after it, wherever that column is and whatever lies between the
\* two, and only columns that are identical to another column
C24_DuplicatesFound ==
    op = "find_duplicated_columns" =>
        /\ {i \in 1..Len(X) : i \in Twins({j \in 1..Len(X) : j > i})}
              \subseteq Range(result.dupes)
        /\ Range(result.dupes) \subseteq Twins(1..Len(X))

\* the limits of the integer type of b bits, for the values of the model
IntMin(b) == CASE b = 8 -> INT8_MIN [] b = 16 -> INT16_MIN [] OTHER -> INT32_MIN

IntMax(b) == CASE b = 8 -> INT8_MAX [] b = 16 -> INT16_MAX [] OTHER -> INT32_MAX

\* C25: compress_dataset casts an int64 column to the smallest type of at
\* least min_int_bits bits whose range, limits included, holds the values of
\* the column, and the values after the cast are the values before
C25_SmallestIntType ==
    op = "compress_dataset" =>
        LET fits(b) == /\ b >= X.min_int_bits
                       /\ \A i \in 1..2 : IntMin(b) <= X.values[i] /\ X.values[i] <= IntMax(b)
        IN  /\ fits(result.bits)
            /\ \A b \in {8, 16, 32, 64} : fits(b) => result.bits <= b
            /\ result.values = X.values

\* C26: check_is_fresh with same_day=False returns True if and only if the
\* object was modified less than max_hours hours ago
C26_FreshWithinHours ==
    op = "check_is_fresh" =>
        (result.value <=> X.age < X.max_hours * 3600)

\* C27: in a call of execute_template with dump_query=True the dump file
\* holds the rendered query when the query is sent, is gone when the call
\* returns and is still there, holding the query, when the call raises; a
\* call with dump_query=False leaves the dump file as it found it
C27_DumpFile ==
    [][ /\ (pc # "idle" /\ X.dump_query /\ queries' # queries) =>
              /\ queries' = Append(queries, X.rendered_template)
              /\ dump_file = X.rendered_template
        /\ (pc # "idle" /\ X.dump_query /\ pc' = "idle" /\ result'.kind = "ok") =>
              dump_file' = NoFile
        /\ (pc # "idle" /\ X.dump_query /\ pc' = "idle" /\ result'.kind # "ok") =>
              dump_file' = X.rendered_template
        /\ (pc # "idle" /\ ~X.dump_query) => dump_file' = dump_file
        /\ pc = "idle" => dump_file' = dump_file /\ queries' = queries
      ]_vars

\* the second call, one with dump_query=True, has returned and the dump file
\* is gone
C27_Witness ==
    /\ op = "execute_template"
    /\ pc = "idle"
    /\ result.kind = "ok"
    /\ X.dump_query
    /\ Len(queries) = 2
    /\ dump_file = NoFile

\* C28: a transform of any of the three classes that returns, returns a table
\* with the row labels of its input, in their order, and its column names
C28_RowsKept ==
    (op = "transform" /\ result.kind = "ok") =>
        /\ result.table.index = X.index
        /\ result.table.columns = X.columns

\* C29: once a CategoryGrouper is fitted, transform returns for every table
\* of categorical columns that has the fitted columns
C29_TransformSucceeds ==
    (/\ op = "transform"
     /\ X_fit # NoTable
     /\ Range(X.columns) = Range(X_fit.columns)
     /\ \A i \in 1..NCols(X) : X.data[i].dtype = "category") =>
        result.kind = "ok"

\* C30: with handle_unknown="na" every fitted column of a table
\* Categorizer.transform returns is categorical, its domain holds the fitted domain of the column
\* and its cells hold labels of its domain or are missing
C30_AnyPolicyCategorical ==
    (op = "transform" /\ result.kind = "ok") =>
        \A i \in 1..NCols(result.table) :
            LET series == result.table.data[i]
                entry == categories_[result.table.columns[i]]
            IN  entry.kind = "Index" =>
                /\ series.dtype = "category"
                /\ Range(entry.labels) \subseteq Range(series.categories)
                /\ Range(series.values) \subseteq Range(series.categories) \cup {NA}

====
